---- MODULE Spec2Model ----
(***************************************************************************)
(* Model of the giacrs C ABI wrapper (src/wrapper): the value boundary     *)
(* (gen.cpp, utils.hpp) and the context lifecycle (context.cpp,            *)
(* options.cpp).  The wrapped library (giac) is the environment: each      *)
(* delegated call either completes, raises std::runtime_error with a       *)
(* message, or raises an exception of another kind.                        *)
(*                                                                         *)
(* Integers are held as pairs (k, r) meaning k * 2^31 + r with r small, so *)
(* that the 32-bit and 8-bit narrowings are computed exactly.              *)
(***************************************************************************)
EXTENDS Integers, Sequences, FiniteSets, TLC

\* ------------------------------------------------------------- bounds
MaxHandles == 2
MaxAbs == 2
MaxContexts == 2

Handles == 1..MaxHandles
Small == (0 - 1)..MaxAbs

\* ------------------------------------------------------------- values
\* giac::gen, reduced to its tag and an exact integer k * 2^31 + r.
FitsInt(k, r) == \/ k = 0
                 \/ k = 1 /\ r < 0
                 \/ k = 0 - 1 /\ r >= 0

MkInt(k, r) == [type |-> IF FitsInt(k, r) THEN "INT" ELSE "ZINT", k |-> k, r |-> r]
SmallInt(r) == MkInt(0, r)
Undef == [type |-> "UNDEF", k |-> 0, r |-> 0]
\* An unevaluated expression whose evaluation is the integer r.
Symb(r) == [type |-> "SYMB", k |-> 0, r |-> r]
\* A heap slot that holds no gen.
NoGen == [type |-> "NONE", k |-> 0, r |-> 0]

IsInteger(v) == v.type \in {"INT", "ZINT"}
InDomain(k, r) == \/ k = 0 /\ r \in Small
                  \/ k = 1 /\ r \in {0 - 1, 0}

\* ------------------------------------------------------------ library
Abs(x) == IF x < 0 THEN 0 - x ELSE x

RECURSIVE GCD(_, _)
GCD(a, b) == IF b = 0 THEN Abs(a) ELSE GCD(b, a % Abs(b))

RECURSIVE Fact(_)
Fact(n) == IF n <= 1 THEN 1 ELSE n * Fact(n - 1)

\* What the library did on one delegated call: k is "ok" (v holds what it
\* returned), "runtime_error" (msg holds what()), or "other".
LibOk(vs) == [k |-> "ok", msg |-> <<>>, v |-> vs]
LibErr(m) == [k |-> "runtime_error", msg |-> m, v |-> <<>>]
LibOther == [k |-> "other", msg |-> <<>>, v |-> <<>>]
TypeErr == LibErr(<<"Bad Argument", "Type">>)
ValueErr == LibErr(<<"Bad Argument", "Value">>)

\* The environment's part of a call: nothing goes wrong, or the call raises.
Envs == {LibOk(<<>>), ValueErr, LibOther}
\* The call under environment env, det being what it computes undisturbed.
Lib(env, det) == IF env.k = "ok" THEN det ELSE env

\* A result the model can hold (the bound on the integers).
Representable(lib) ==
    \A i \in 1..Len(lib.v) :
        IsInteger(lib.v[i]) => InDomain(lib.v[i].k, lib.v[i].r)

\* giac::operator + - * / on gen.  An integer pair outside the model's range,
\* a non-exact quotient and a division by zero are results the model does not
\* hold: MkInt(9, 9) is never Representable.
Unheld == MkInt(9, 9)
\* An int code the model can hold.
CodeHeld(lib) == lib.k = "ok" => lib.v[1] # Unheld
gen_arith(op, a, b) ==
    IF a.type = "UNDEF" \/ b.type = "UNDEF" THEN LibOk(<<Undef>>)
    ELSE IF ~(IsInteger(a) /\ IsInteger(b)) THEN LibOk(<<Unheld>>)
    ELSE CASE op = "add" -> LibOk(<<MkInt(a.k + b.k, a.r + b.r)>>)
           [] op = "sub" -> LibOk(<<MkInt(a.k - b.k, a.r - b.r)>>)
           [] op = "mul" -> IF a.k = 0 THEN LibOk(<<MkInt(b.k * a.r, b.r * a.r)>>)
                            ELSE IF b.k = 0 THEN LibOk(<<MkInt(a.k * b.r, a.r * b.r)>>)
                            ELSE LibOk(<<Unheld>>)
           [] op = "div" -> IF b.k = 0 /\ b.r # 0 /\ a.k % Abs(b.r) = 0 /\ a.r % Abs(b.r) = 0
                                /\ (a.k = 0 \/ b.r > 0)
                            THEN LibOk(<<MkInt(a.k \div b.r,
                                               IF b.r > 0 THEN a.r \div b.r
                                               ELSE 0 - (a.r \div (0 - b.r)))>>)
                            ELSE LibOk(<<Unheld>>)

\* giac::gcd on integers (exact on the small ones the model holds).
gen_gcd(a, b) ==
    IF ~(IsInteger(a) /\ IsInteger(b)) THEN TypeErr
    ELSE IF a.k = 0 /\ b.k = 0 THEN LibOk(<<SmallInt(GCD(a.r, b.r))>>)
    ELSE IF a = b THEN LibOk(<<a>>)
    ELSE LibOk(<<Unheld>>)

\* giac::irem(a, b, q): the remainder, and the quotient through q.  v is
\* <<remainder, quotient>>.
gen_irem(a, b) ==
    IF ~(IsInteger(a) /\ IsInteger(b)) THEN TypeErr
    ELSE IF b.k = 0 /\ b.r = 0 THEN ValueErr
    ELSE IF a.k = 0 /\ b.k = 0
         THEN LET m == Abs(b.r)
                  rem == a.r % m
                  quo == IF b.r > 0 THEN (a.r - rem) \div m ELSE 0 - ((a.r - rem) \div m)
              IN LibOk(<<SmallInt(rem), SmallInt(quo)>>)
    ELSE LibOk(<<Unheld, Unheld>>)

\* giac::factorial(unsigned long).
gen_factorial(i) == LibOk(<<SmallInt(Fact(i))>>)

\* giac::_ithprime: the i-th prime; the undefined value when the argument
\* is oversized (the case gen.cpp:145 guards against).
Primes == <<2, 3, 5, 7>>
gen_ithprime(a) ==
    IF ~IsInteger(a) THEN TypeErr
    ELSE IF a.k # 0 THEN LibOk(<<Undef>>)
    ELSE IF a.r <= 0 THEN ValueErr
    ELSE IF a.r <= Len(Primes) THEN LibOk(<<SmallInt(Primes[a.r])>>)
    ELSE LibOk(<<Unheld>>)
is_undef(v) == v.type = "UNDEF"

\* giac::iabcuv(a, b, c): a vector <<u, v>> with a*u + b*v = c.
gen_iabcuv(a, b, c) ==
    IF ~(IsInteger(a) /\ IsInteger(b) /\ IsInteger(c)) THEN TypeErr
    ELSE IF a.k # 0 \/ b.k # 0 \/ c.k # 0 THEN LibOk(<<Unheld, Unheld>>)
    ELSE LET sols == {uv \in ((0 - 1)..1) \X ((0 - 1)..1) : a.r * uv[1] + b.r * uv[2] = c.r}
         IN IF sols = {} THEN ValueErr
            ELSE LET uv == CHOOSE x \in sols :
                               \A y \in sols : Abs(x[1]) + Abs(x[2]) <= Abs(y[1]) + Abs(y[2])
                 IN LibOk(<<SmallInt(uv[1]), SmallInt(uv[2])>>)

\* giac::pa2b2(p): a vector <<a, b>> with a^2 + b^2 = p.
gen_pa2b2(p) ==
    IF ~IsInteger(p) THEN TypeErr
    ELSE IF p.k # 0 THEN LibOk(<<Unheld, Unheld>>)
    ELSE LET sols == {ab \in (0..MaxAbs) \X (0..MaxAbs) :
                         ab[1] >= ab[2] /\ ab[1] * ab[1] + ab[2] * ab[2] = p.r}
         IN IF sols = {} \/ p.r < 2 THEN ValueErr
            ELSE LET ab == CHOOSE x \in sols : TRUE
                 IN LibOk(<<SmallInt(ab[1]), SmallInt(ab[2])>>)

\* gen::to_int(): an _INT_ is its value, a _ZINT is mpz_get_si narrowed to
\* the int return type (modulo 2^32), any other type raises.
Wrap32(k, r) ==
    LET odd == k % 2 = 1
    IN IF ~odd THEN MkInt(0, r)
       ELSE IF r < 0 THEN MkInt(1, r) ELSE MkInt(0 - 1, r)
gen_to_int(e) ==
    IF e.type = "INT" THEN LibOk(<<e>>)
    ELSE IF e.type = "ZINT" THEN LibOk(<<Wrap32(e.k, e.r)>>)
    ELSE TypeErr

\* The int the number-theoretic predicates return.  giac::legendre and
\* giac::jacobi return -RAND_MAX (-(2^31 - 1)) when an argument is not an
\* integer; giac::is_probab_prime_p returns a bool.
Sentinel == MkInt(0 - 1, 1)
IsPrime(n) == n >= 2 /\ \A d \in 2..(n - 1) : n % d # 0
gen_is_probab_prime_p(a) ==
    IF ~IsInteger(a) THEN TypeErr
    ELSE IF a.k # 0 THEN LibOk(<<SmallInt(IF a.r = 0 - 1 THEN 1 ELSE 0)>>)
    ELSE LibOk(<<SmallInt(IF IsPrime(Abs(a.r)) THEN 1 ELSE 0)>>)
\* The Legendre/Jacobi symbol (a / b) for the small odd b the model holds.
Symbol(a, b) ==
    IF GCD(a, b) # 1 THEN 0
    ELSE IF \E x \in 1..(Abs(b)) : (x * x - a) % Abs(b) = 0 /\ x % Abs(b) # 0 THEN 1
    ELSE 0 - 1
gen_jacobi(a, b) ==
    IF ~(IsInteger(a) /\ IsInteger(b)) THEN LibOk(<<Sentinel>>)
    ELSE IF a.k # 0 \/ b.k # 0 THEN LibOk(<<Unheld>>)
    ELSE IF b.r <= 0 \/ b.r % 2 = 0 THEN ValueErr
    ELSE LibOk(<<SmallInt(Symbol(a.r, b.r))>>)
gen_legendre(a, b) == gen_jacobi(a, b)

\* A C conversion of an int to int8_t: the low 8 bits, signed.  2^31 is a
\* multiple of 256, so only r decides.
Narrow8(v) == LET m == v.r % 256 IN SmallInt(IF m >= 128 THEN m - 256 ELSE m)

\* The parser (gen(s, ctx)) and the evaluator (giac::eval).  A text is its
\* parse: the tree, and the first error line (0: none) with its diagnostic.
SyntaxDiag == <<"syntax error", "line 1">>
Texts == {[text |-> "2", tree |-> SmallInt(2), line |-> 0, diag |-> <<>>],
          [text |-> "1+1", tree |-> Symb(2), line |-> 0, diag |-> <<>>],
          [text |-> "1+", tree |-> Undef, line |-> 1, diag |-> SyntaxDiag]}
gen_eval(tree) == IF tree.type = "SYMB" THEN LibOk(<<SmallInt(tree.r)>>) ELSE LibOk(<<tree>>)

\* gen::print(): the rendering, a sequence of tokens.
gen_print(v) == <<v.type, ToString(v.k), ToString(v.r)>>

\* -------------------------------------------------------------- state
\* heap: the gen each value handle points to (NoGen: not allocated).
\* ctxs: the contexts; 0 is giac::context0, the others come from
\*       giacrs_new_context.
\* last: the last call across the boundary: what was called with what, what
\*       the library did, what came back.
\* origin: for a handle giacrs_gen_clone returned, the handle it was cloned
\*       from, while both are in use (0: none).  Read by no operation.
VARIABLES heap, ctxs, last, origin
vars == <<heap, ctxs, last, origin>>

Contexts == 0..MaxContexts
DefaultEpsilon == "1e-12"
Epsilons == {"1e-12", "1e-6"}
NoContext == [live |-> FALSE, logptr |-> "none", epsilon |-> "none",
              first_error_line |-> 0, parser_error |-> <<>>]
\* giac::context(): the library's defaults, the log going to the
\* library's own stream.
FreshContext == [live |-> TRUE, logptr |-> "CERR", epsilon |-> DefaultEpsilon,
                 first_error_line |-> 0, parser_error |-> <<>>]

\* ------------------------------------------------------------ returns
NUL == "\\0"
Null == [k |-> "null", buf |-> <<>>, h |-> 0]
Str(b) == [k |-> "str", buf |-> b, h |-> 0]
Handle(h) == [k |-> "handle", buf |-> <<>>, h |-> h]
Void == [k |-> "void", buf |-> <<>>, h |-> 0]
\* No return: the exception leaves the function.
Escaped == [k |-> "escaped", buf |-> <<>>, h |-> 0]

Min(a, b) == IF a < b THEN a ELSE b
\* malloc(size) then strcpy(str, s): the characters of s and the
\* terminator, in the size bytes of the buffer.
strcpy(size, s) == SubSeq(s \o <<NUL>>, 1, Min(size, Len(s) + 1))
string_to_c(s) == strcpy(Len(s) + 1, s)
\* What a reader of the C string sees: the characters before the terminator.
Terminated(buf) == \E i \in 1..Len(buf) : buf[i] = NUL
Content(buf) == LET n == CHOOSE i \in 1..Len(buf) :
                             buf[i] = NUL /\ \A j \in 1..(i - 1) : buf[j] # NUL
                IN SubSeq(buf, 1, n - 1)

\* try { res_code return NULL; } catch (std::runtime_error &e) { ... }:
\* what the call returns given what the body's library call did.
SAFE_VOID_CALL(lib) ==
    IF lib.k = "ok" THEN Null
    ELSE IF lib.k = "runtime_error" THEN Str(strcpy(Len(lib.msg) + 1, lib.msg))
    ELSE Escaped
\* A slot that is cleared before res_code runs.
SAFE_CALL_clearing(h, res, lib) == [h EXCEPT ![res] = IF lib.k = "ok" THEN lib.v[1] ELSE Undef]
\* *res = res_code; inside it: the slot is assigned only when res_code
\* completes.
SAFE_CALL(h, res, lib) == IF lib.k = "ok" THEN [h EXCEPT ![res] = lib.v[1]] ELSE h

NoScalar == [w |-> FALSE, v |-> SmallInt(0)]
Scalar(v) == [w |-> TRUE, v |-> v]
Call(op, args, lib, stage, ret, sc, calls) ==
    [op |-> op, args |-> args, lib |-> lib, stage |-> stage, ret |-> ret,
     sc |-> sc, calls |-> calls]

Live == {h \in Handles : heap[h] # NoGen}
LiveCtx == {c \in Contexts : ctxs[c].live}
\* new giac::gen(...): a handle that is not in use.
NewHandle == CHOOSE h \in Handles : heap[h] = NoGen /\ \A g \in Handles : heap[g] = NoGen => h <= g
CanAllocate == \E h \in Handles : heap[h] = NoGen
\* An exception that left a function ends the host's use of the library.
Running == last.ret.k # "escaped"

Init ==
    /\ heap = [h \in Handles |-> NoGen]
    /\ ctxs = [c \in Contexts |-> IF c = 0 THEN FreshContext ELSE NoContext]
    /\ last = Call("none", <<>>, LibOk(<<>>), "none", Void, NoScalar, <<>>)
    /\ origin = [h \in Handles |-> 0]

\* ---------------------------------------------------------- allocation
\* gen.cpp:29
giacrs_gen_allocate ==
    /\ Running /\ CanAllocate
    /\ heap' = [heap EXCEPT ![NewHandle] = SmallInt(0)]
    /\ last' = Call("allocate", <<>>, LibOk(<<SmallInt(0)>>), "call",
                    Handle(NewHandle), NoScalar, <<"gen()">>)
    /\ UNCHANGED <<ctxs, origin>>

\* A from_str that does not look at the parser's error line.
syntax_error_ignored(cx, c) == FALSE
\* gen.cpp:33: giac::first_error_line(ctx) != 0
syntax_error(cx, c) == cx[c].first_error_line # 0

\* gen.cpp:30-38.  The parse (line 32) is outside the try; the evaluation
\* (line 37) is inside it.  stage says which of the two calls env disturbs.
giacrs_gen_from_str(t, c, res, env, stage) ==
    /\ Running /\ res \in Live /\ c \in LiveCtx
    /\ env.k = "ok" => stage = "eval"
    /\ UNCHANGED origin
    /\ IF stage = "parse"
       THEN /\ heap' = heap
            /\ ctxs' = ctxs
            /\ last' = Call("from_str", <<t.text, c, res>>, env, "parse", Escaped, NoScalar,
                            <<"gen(s, ctx)">>)
       ELSE LET parsed == [heap EXCEPT ![res] = t.tree]
                cx == [ctxs EXCEPT ![c].first_error_line = t.line,
                                   ![c].parser_error = t.diag]
            IN /\ ctxs' = cx
               /\ IF syntax_error(cx, c)
                  THEN /\ heap' = parsed
                       /\ last' = Call("from_str", <<t.text, c, res>>, LibOk(<<t.tree>>),
                                       "parse", Str(string_to_c(cx[c].parser_error)),
                                       NoScalar, <<"gen(s, ctx)">>)
                  ELSE LET lib == Lib(env, gen_eval(parsed[res]))
                       IN /\ heap' = SAFE_CALL(parsed, res, lib)
                          /\ last' = Call("from_str", <<t.text, c, res>>, lib, "eval",
                                          SAFE_VOID_CALL(lib), NoScalar,
                                          <<"gen(s, ctx)", "eval">>)

\* gen.cpp:40
giacrs_gen_from_int(v) ==
    /\ Running /\ CanAllocate
    /\ heap' = [heap EXCEPT ![NewHandle] = v]
    /\ last' = Call("from_int", <<v>>, LibOk(<<v>>), "call", Handle(NewHandle), NoScalar, <<"gen(int)">>)
    /\ UNCHANGED <<ctxs, origin>>

\* gen.cpp:48-50: no try around giac::factorial.
giacrs_gen_factorial(i, env) ==
    /\ Running /\ CanAllocate
    /\ LET lib == Lib(env, gen_factorial(i))
       IN /\ Representable(lib)
          /\ heap' = IF lib.k = "ok" THEN [heap EXCEPT ![NewHandle] = lib.v[1]] ELSE heap
          /\ last' = Call("factorial", <<i>>, lib, "call",
                          IF lib.k = "ok" THEN Handle(NewHandle) ELSE Escaped, NoScalar, <<"factorial">>)
    /\ UNCHANGED <<ctxs, origin>>

\* gen.cpp:52
giacrs_free_gen(e) ==
    /\ Running /\ e \in Live
    /\ heap' = [heap EXCEPT ![e] = NoGen]
    /\ last' = Call("free", <<e>>, LibOk(<<>>), "call", Void, NoScalar, <<"delete">>)
    /\ origin' = [h \in Handles |-> IF h = e \/ origin[h] = e THEN 0 ELSE origin[h]]
    /\ UNCHANGED ctxs

\* A clone that hands back the handle it was given.
clone_handle_alias(e) == e
\* gen.cpp:54-56: new giac::gen(*e), the copy in a handle of its own.
clone_handle(e) == NewHandle
giacrs_gen_clone(e) ==
    /\ Running /\ e \in Live /\ CanAllocate
    /\ heap' = [heap EXCEPT ![clone_handle(e)] = heap[e]]
    /\ last' = Call("clone", <<e>>, LibOk(<<heap[e]>>), "call", Handle(clone_handle(e)),
                    NoScalar, <<"gen(gen)">>)
    /\ origin' = [origin EXCEPT ![clone_handle(e)] = e]
    /\ UNCHANGED ctxs

\* ---------------------------------------------------------- conversion
\* gen.cpp:68-70: no try around print().
giacrs_gen_to_str(e, env) ==
    /\ Running /\ e \in Live
    /\ LET lib == Lib(env, LibOk(<<heap[e]>>))
       IN last' = Call("to_str", <<e>>, lib, "call",
                       IF lib.k = "ok" THEN Str(string_to_c(gen_print(lib.v[1]))) ELSE Escaped,
                       NoScalar, <<"print">>)
    /\ UNCHANGED <<heap, ctxs, origin>>

\* gen.cpp:72-74: SAFE_CALL(e->to_int()) into an int.  to_int() reads the
\* value and raises on its type alone.
giacrs_gen_to_int(e) ==
    /\ Running /\ e \in Live
    /\ LET lib == gen_to_int(heap[e])
       IN last' = Call("to_int", <<e>>, lib, "call", SAFE_VOID_CALL(lib),
                       IF lib.k = "ok" THEN Scalar(lib.v[1]) ELSE NoScalar, <<"to_int">>)
    /\ UNCHANGED <<heap, ctxs, origin>>

\* ------------------------------------------------------------- methods
\* gen.cpp:78-81
giacrs_gen_gcd(a, b, res, env) ==
    /\ Running /\ {a, b, res} \subseteq Live
    /\ LET lib == Lib(env, gen_gcd(heap[a], heap[b]))
       IN /\ Representable(lib)
          /\ heap' = SAFE_CALL(heap, res, lib)
          /\ last' = Call("gcd", <<a, b, res>>, lib, "call", SAFE_VOID_CALL(lib), NoScalar, <<"gcd">>)
    /\ UNCHANGED <<ctxs, origin>>

\* gen.cpp:111-114: giac::irem writes the quotient through q, the wrapper
\* assigns the remainder to res.  A raising call may have written q already
\* (stage "after_q").
giacrs_gen_iquorem(a, b, q, res, env, stage) ==
    /\ Running /\ {a, b, q, res} \subseteq Live /\ q \notin {a, b}
    /\ LET det == gen_irem(heap[a], heap[b])
           lib == Lib(env, det)
           qw == [heap EXCEPT ![q] = det.v[2]]
       IN /\ Representable(det)
          /\ stage = "after_q" => env.k # "ok" /\ det.k = "ok"
          /\ heap' = IF lib.k = "ok" THEN SAFE_CALL(qw, res, lib)
                     ELSE IF stage = "after_q" THEN qw ELSE heap
          /\ last' = Call("iquorem", <<a, b, q, res>>, lib, stage, SAFE_VOID_CALL(lib),
                          NoScalar, <<"irem">>)
    /\ UNCHANGED <<ctxs, origin>>

\* gen.cpp:116-119: the quotient goes to a local.
giacrs_gen_irem(a, b, res, env) ==
    /\ Running /\ {a, b, res} \subseteq Live
    /\ LET lib == Lib(env, gen_irem(heap[a], heap[b]))
       IN /\ Representable(lib)
          /\ heap' = SAFE_CALL(heap, res, lib)
          /\ last' = Call("irem", <<a, b, res>>, lib, "call", SAFE_VOID_CALL(lib), NoScalar, <<"irem">>)
    /\ UNCHANGED <<ctxs, origin>>

\* The int8_t slot of is_pseudoprime, legendre and jacobi: *res = res_code
\* narrows the library's return value.
SAFE_CALL_int8(lib) == IF lib.k = "ok" THEN Scalar(Narrow8(lib.v[1])) ELSE NoScalar

\* gen.cpp:129-131
giacrs_gen_is_pseudoprime(a, env) ==
    /\ Running /\ a \in Live
    /\ LET lib == Lib(env, gen_is_probab_prime_p(heap[a]))
       IN last' = Call("is_pseudoprime", <<a>>, lib, "call", SAFE_VOID_CALL(lib),
                       SAFE_CALL_int8(lib), <<"is_probab_prime_p">>)
    /\ UNCHANGED <<heap, ctxs, origin>>

\* gen.cpp:141-156: the slot is assigned, then an undefined result is turned
\* into a std::runtime_error raised inside the try.
NthprimeMsg == <<"Failed to compute nthprime,", "argument is too big">>
\* The body without its is_undef guard.
nthprime_body_unguarded(lib) == lib
nthprime_body(lib) ==
    IF lib.k = "ok" /\ is_undef(lib.v[1]) THEN LibErr(NthprimeMsg) ELSE lib
giacrs_gen_nthprime(a, res, env) ==
    /\ Running /\ {a, res} \subseteq Live
    /\ LET lib == Lib(env, gen_ithprime(heap[a]))
       IN /\ Representable(lib)
          /\ heap' = SAFE_CALL(heap, res, lib)
          /\ last' = Call("nthprime", <<a, res>>, lib, "call",
                          SAFE_VOID_CALL(nthprime_body(lib)), NoScalar, <<"_ithprime">>)
    /\ UNCHANGED <<ctxs, origin>>

\* The body { gen vec = f(...); *x = vec[0]; *y = vec[1]; }: env disturbs
\* the call itself or one of the two element accesses that follow it.
VecStages == {"call", "vec[0]", "vec[1]"}
vec_body(h, x, y, det, env, stage) ==
    IF env.k = "ok" THEN (IF det.k = "ok" THEN [h EXCEPT ![x] = det.v[1], ![y] = det.v[2]] ELSE h)
    ELSE IF stage = "vec[1]" THEN [h EXCEPT ![x] = det.v[1]]
    ELSE h

\* gen.cpp:163-171
giacrs_gen_iabcuv(a, b, c, u, v, env, stage) ==
    /\ Running /\ {a, b, c, u, v} \subseteq Live /\ u # v
    /\ LET det == gen_iabcuv(heap[a], heap[b], heap[c])
           lib == Lib(env, det)
       IN /\ Representable(det)
          /\ stage # "call" => env.k # "ok" /\ det.k = "ok"
          /\ heap' = vec_body(heap, u, v, det, env, stage)
          /\ last' = Call("iabcuv", <<a, b, c, u, v>>, lib, stage, SAFE_VOID_CALL(lib),
                          NoScalar, <<"iabcuv">>)
    /\ UNCHANGED <<ctxs, origin>>

\* gen.cpp:179-186
giacrs_gen_pa2b2(p, a, b, env, stage) ==
    /\ Running /\ {p, a, b} \subseteq Live /\ a # b
    /\ LET det == gen_pa2b2(heap[p])
           lib == Lib(env, det)
       IN /\ Representable(det)
          /\ stage # "call" => env.k # "ok" /\ det.k = "ok"
          /\ heap' = vec_body(heap, a, b, det, env, stage)
          /\ last' = Call("pa2b2", <<p, a, b>>, lib, stage, SAFE_VOID_CALL(lib), NoScalar, <<"pa2b2">>)
    /\ UNCHANGED <<ctxs, origin>>

\* gen.cpp:193-195
giacrs_gen_legendre(a, b, env) ==
    /\ Running /\ {a, b} \subseteq Live
    /\ LET lib == Lib(env, gen_legendre(heap[a], heap[b]))
       IN /\ CodeHeld(lib)
          /\ last' = Call("legendre", <<a, b>>, lib, "call", SAFE_VOID_CALL(lib),
                          SAFE_CALL_int8(lib), <<"legendre">>)
    /\ UNCHANGED <<heap, ctxs, origin>>

\* gen.cpp:197-199
giacrs_gen_jacobi(a, b, env) ==
    /\ Running /\ {a, b} \subseteq Live
    /\ LET lib == Lib(env, gen_jacobi(heap[a], heap[b]))
       IN /\ CodeHeld(lib)
          /\ last' = Call("jacobi", <<a, b>>, lib, "call", SAFE_VOID_CALL(lib),
                          SAFE_CALL_int8(lib), <<"jacobi">>)
    /\ UNCHANGED <<heap, ctxs, origin>>

\* ----------------------------------------------------------- operators
\* gen.cpp:226-237: SAFE_CALL(*res op *f), the first argument being the
\* slot.
ArithOps == {"add", "sub", "mul", "div"}
\* The operands taken the other way round.
arith_operands_swapped(h, res, f) == <<h[f], h[res]>>
arith_operands(h, res, f) == <<h[res], h[f]>>
giacrs_gen_arith(op, res, f, env) ==
    /\ Running /\ {res, f} \subseteq Live
    /\ LET xy == arith_operands(heap, res, f)
           lib == Lib(env, gen_arith(op, xy[1], xy[2]))
       IN /\ Representable(lib)
          /\ heap' = SAFE_CALL(heap, res, lib)
          /\ last' = Call(op, <<res, f>>, lib, "call", SAFE_VOID_CALL(lib), NoScalar, <<"operator">>)
    /\ UNCHANGED <<ctxs, origin>>
giacrs_gen_add(res, f, env) == giacrs_gen_arith("add", res, f, env)
giacrs_gen_sub(res, f, env) == giacrs_gen_arith("sub", res, f, env)
giacrs_gen_mul(res, f, env) == giacrs_gen_arith("mul", res, f, env)
giacrs_gen_div(res, f, env) == giacrs_gen_arith("div", res, f, env)

\* ------------------------------------------------------------ contexts
\* context.cpp:6-8: giac::logptr(&nullStream, giac::context0).
giacrs_init_global_context ==
    /\ Running
    /\ ctxs' = [ctxs EXCEPT ![0].logptr = "nullStream"]
    /\ last' = Call("init_global_context", <<>>, LibOk(<<>>), "call", Void, NoScalar, <<"logptr">>)
    /\ UNCHANGED <<heap, origin>>

\* context.cpp:10-14
\* A new context left with the library's own log stream.
new_context_logptr_default == "CERR"
new_context_logptr == "nullStream"
giacrs_new_context ==
    /\ Running /\ \E c \in Contexts : ~ctxs[c].live
    /\ LET c == CHOOSE x \in Contexts : ~ctxs[x].live /\ \A y \in Contexts : ~ctxs[y].live => x <= y
       IN /\ ctxs' = [ctxs EXCEPT ![c] = [FreshContext EXCEPT !.logptr = new_context_logptr]]
          /\ last' = Call("new_context", <<c>>, LibOk(<<>>), "call", Handle(c), NoScalar, <<"context()">>)
    /\ UNCHANGED <<heap, origin>>

\* context.cpp:15: delete ctx.
giacrs_free_context(c) ==
    /\ Running /\ c \in LiveCtx /\ c # 0
    /\ ctxs' = [ctxs EXCEPT ![c] = NoContext]
    /\ last' = Call("free_context", <<c>>, LibOk(<<>>), "call", Void, NoScalar, <<"delete">>)
    /\ UNCHANGED <<heap, origin>>

\* options.cpp:4-7: giac::epsilon(e, ctx).
set_epsilon_target(c) == c
giacrs_options_set_epsilon(e, c) ==
    /\ Running /\ c \in LiveCtx
    /\ ctxs' = [ctxs EXCEPT ![set_epsilon_target(c)].epsilon = e]
    /\ last' = Call("set_epsilon", <<e, c>>, LibOk(<<>>), "call", Void, NoScalar, <<"epsilon">>)
    /\ UNCHANGED <<heap, origin>>

\* ------------------------------------------------------ specifications
IntInputs == {SmallInt(r) : r \in Small} \cup {MkInt(1, 0 - 1)}

\* The error marshalling of the value boundary: construction, parsing and
\* the calls under SAFE_CALL and its hand-written variant.
Next ==
    \/ giacrs_gen_allocate
    \/ \E t \in Texts, c \in Contexts, res \in Handles, env \in Envs, stage \in {"parse", "eval"} :
           giacrs_gen_from_str(t, c, res, env, stage)
    \/ \E v \in IntInputs : giacrs_gen_from_int(v)
    \/ \E i \in 0..MaxAbs, env \in Envs : giacrs_gen_factorial(i, env)
    \/ \E e \in Handles : giacrs_free_gen(e)
    \/ \E e \in Handles, env \in Envs : giacrs_gen_to_str(e, env)
    \/ \E a, b, res \in Handles, env \in Envs : giacrs_gen_gcd(a, b, res, env)
    \/ \E a, res \in Handles, env \in Envs : giacrs_gen_nthprime(a, res, env)

Spec == Init /\ [][Next]_vars

\* Handles and the operators that work in place.
NextArith ==
    \/ \E v \in IntInputs : giacrs_gen_from_int(v)
    \/ \E e \in Handles : giacrs_free_gen(e)
    \/ \E e \in Handles : giacrs_gen_clone(e)
    \/ \E res, f \in Handles, env \in Envs : giacrs_gen_add(res, f, env)
    \/ \E res, f \in Handles, env \in Envs : giacrs_gen_sub(res, f, env)
    \/ \E res, f \in Handles, env \in Envs : giacrs_gen_mul(res, f, env)
    \/ \E res, f \in Handles, env \in Envs : giacrs_gen_div(res, f, env)

SpecArith == Init /\ [][NextArith]_vars

\* The calls that fill output slots.
NextSlots ==
    \/ \E v \in IntInputs : giacrs_gen_from_int(v)
    \/ \E t \in Texts, c \in Contexts, res \in Handles, env \in Envs, stage \in {"parse", "eval"} :
           giacrs_gen_from_str(t, c, res, env, stage)
    \/ \E a, res \in Handles, env \in Envs : giacrs_gen_nthprime(a, res, env)
    \/ \E a, b, q, res \in Handles, env \in Envs, stage \in {"call", "after_q"} :
           giacrs_gen_iquorem(a, b, q, res, env, stage)
    \/ \E a, b, res \in Handles, env \in Envs : giacrs_gen_irem(a, b, res, env)
    \/ \E a, b, c, u, v \in Handles, env \in Envs, stage \in VecStages :
           giacrs_gen_iabcuv(a, b, c, u, v, env, stage)
    \/ \E p, a, b \in Handles, env \in Envs, stage \in VecStages :
           giacrs_gen_pa2b2(p, a, b, env, stage)
    \/ \E op \in ArithOps, res, f \in Handles, env \in Envs : giacrs_gen_arith(op, res, f, env)

SpecSlots == Init /\ [][NextSlots]_vars

\* The calls that return machine integers.
NextCodes ==
    \/ \E v \in IntInputs : giacrs_gen_from_int(v)
    \/ \E a, res \in Handles, env \in Envs : giacrs_gen_nthprime(a, res, env)
    \/ \E res, f \in Handles, env \in Envs : giacrs_gen_add(res, f, env)
    \/ \E e \in Handles : giacrs_gen_to_int(e)
    \/ \E a \in Handles, env \in Envs : giacrs_gen_is_pseudoprime(a, env)
    \/ \E a, b \in Handles, env \in Envs : giacrs_gen_legendre(a, b, env)
    \/ \E a, b \in Handles, env \in Envs : giacrs_gen_jacobi(a, b, env)

SpecCodes == Init /\ [][NextCodes]_vars

\* The context lifecycle.
NextContext ==
    \/ giacrs_init_global_context
    \/ giacrs_new_context
    \/ \E c \in Contexts : giacrs_free_context(c)
    \/ \E e \in Epsilons, c \in Contexts : giacrs_options_set_epsilon(e, c)

SpecContext == Init /\ [][NextContext]_vars

\* ------------------------------------------------------------- claims
TextOf(name) == CHOOSE t \in Texts : t.text = name
Count(seq, x) == Cardinality({i \in 1..Len(seq) : seq[i] = x})
\* The calls that return `result`, and the gen slot each assigns.
SafeCallOps == ArithOps \cup {"gcd", "irem", "iquorem"}
ResSlot(l) == CASE l.op \in ArithOps -> l.args[1]
                [] l.op \in {"gcd", "irem", "from_str"} -> l.args[3]
                [] l.op = "iquorem" -> l.args[4]
                [] l.op = "nthprime" -> l.args[2]
OutSlots(l) == CASE l.op \in ArithOps \cup {"gcd", "irem", "from_str", "nthprime"} -> {ResSlot(l)}
                 [] l.op = "iquorem" -> {l.args[3], l.args[4]}
                 [] l.op = "iabcuv" -> {l.args[4], l.args[5]}
                 [] l.op = "pa2b2" -> {l.args[2], l.args[3]}
                 [] OTHER -> {}
\* The library call failed: it raised, or it reported a syntax error, or
\* (nthprime) it yielded the undefined value.
SyntaxError(l) == l.op = "from_str" /\ l.lib.k = "ok" /\ TextOf(l.args[1]).line # 0
Oversized(l) == l.op = "nthprime" /\ l.lib.k = "ok" /\ is_undef(l.lib.v[1])
Failed(l) == l.lib.k # "ok" \/ SyntaxError(l) \/ Oversized(l)
FailureMsg(l) == IF l.lib.k # "ok" THEN l.lib.msg
                 ELSE IF SyntaxError(l) THEN TextOf(l.args[1]).diag
                 ELSE NthprimeMsg

\* C1: no call ends by an exception leaving the entry point: whatever the
\* delegated library call raises is caught and returned as an error string.
C1_NoExceptionEscapes == last.ret.k # "escaped"

\* C2: a fallible operation returns null exactly when the library call did
\* not fail, the slot then holding the library's result; otherwise it
\* returns a null-terminated string whose content is the failure message;
\* no library call is made twice.
C2_ResultContract ==
    last.op \in {"from_str", "gcd", "nthprime"} =>
        /\ (last.ret.k = "null") <=> ~Failed(last)
        /\ ~Failed(last) => heap[ResSlot(last)] = last.lib.v[1]
        /\ Failed(last) => /\ last.ret.k = "str"
                           /\ Terminated(last.ret.buf)
                           /\ Content(last.ret.buf) = FailureMsg(last)
        /\ \A i, j \in 1..Len(last.calls) : last.calls[i] = last.calls[j] => i = j

\* C3: when the parser reports a syntax error, from_str returns the parser's
\* diagnostic, the evaluator is not invoked and the slot holds the
\* unevaluated parse; when it reports none, the evaluator is invoked exactly
\* once and on a null return the slot holds the evaluation of the parse.
ParseCompleted(l) == ~(l.stage = "parse" /\ l.lib.k # "ok")
C3_FromStrSyntax ==
    (last.op = "from_str" /\ ParseCompleted(last)) =>
        LET t == TextOf(last.args[1])
            res == last.args[3]
        IN /\ t.line # 0 => /\ last.ret.k = "str"
                            /\ Terminated(last.ret.buf)
                            /\ Content(last.ret.buf) = t.diag
                            /\ Count(last.calls, "eval") = 0
                            /\ heap[res] = t.tree
           /\ t.line = 0 => /\ Count(last.calls, "eval") = 1
                            /\ last.ret.k = "null" => heap[res] = gen_eval(t.tree).v[1]
C3_Witness ==
    /\ last.op = "from_str" /\ ParseCompleted(last)
    /\ TextOf(last.args[1]).line # 0
    /\ last.ret.k = "str"

\* C4: while y is a clone of x, an add/sub/mul/div whose first argument is y,
\* or free(y), leaves the value and the rendering of x as they were, and the
\* same with x and y exchanged; a clone is never the handle it was made from.
Mutates(l, h) == l.op \in ArithOps \cup {"free"} /\ l.args[1] = h
C4_CloneIndependent ==
    [][\A y \in Handles :
          /\ origin'[y] # 0 => origin'[y] # y
          /\ origin[y] # 0 =>
                LET x == origin[y]
                IN /\ Mutates(last', y) => /\ heap'[x] = heap[x]
                                           /\ gen_print(heap'[x]) = gen_print(heap[x])
                   /\ Mutates(last', x) => \/ x = y
                                           \/ /\ heap'[y] = heap[y]
                                              /\ gen_print(heap'[y]) = gen_print(heap[y])]_vars
C4_Witness ==
    \E y \in Handles :
        /\ origin[y] # 0
        /\ last.op \in ArithOps /\ last.args[1] = y /\ last.ret.k = "null"
        /\ heap[y] # heap[origin[y]]

\* C5: a successful add/sub/mul/div(res, f) leaves in res the old value of
\* res combined with the old value of f (with itself when f is res), leaves
\* f as it was when f is another handle, and allocates no handle.
C5_InPlaceArith ==
    [][(last'.op \in ArithOps /\ last'.ret.k = "null") =>
          LET res == last'.args[1]
              f == last'.args[2]
          IN /\ heap'[res] = gen_arith(last'.op, heap[res], heap[f]).v[1]
             /\ f # res => heap'[f] = heap[f]
             /\ \A h \in Handles : (heap'[h] = NoGen) <=> (heap[h] = NoGen)]_vars
C5_Witness ==
    /\ last.op = "sub" /\ last.ret.k = "null"
    /\ last.args[1] # last.args[2]
    /\ heap[last.args[1]] # heap[last.args[2]]
    /\ heap[last.args[1]].r < 0

\* C6: nthprime returns null exactly when _ithprime neither raises nor
\* yields the undefined value; when it yields the undefined value the return
\* is the wrapper's own message, which is no message of the library; only an
\* exception of the library leaves the function, never the wrapper's own.
C6_NthprimeGuard ==
    last.op = "nthprime" =>
        /\ (last.ret.k = "null") <=> (last.lib.k = "ok" /\ ~is_undef(last.lib.v[1]))
        /\ Oversized(last) => /\ last.ret.k = "str"
                              /\ Terminated(last.ret.buf)
                              /\ Content(last.ret.buf) = NthprimeMsg
                              /\ \A e \in Envs \cup {TypeErr, ValueErr} : e.msg # NthprimeMsg
        /\ last.ret.k = "escaped" => last.lib.k = "other"
C6_Witness ==
    /\ last.op = "nthprime" /\ Oversized(last)
    /\ last.ret.k = "str"

\* C7: on a null return the int8_t slot of is_pseudoprime, legendre and
\* jacobi holds the integer the library returned.
C7_CodePreserved ==
    (last.op \in {"is_pseudoprime", "legendre", "jacobi"} /\ last.ret.k = "null") =>
        /\ last.sc.w
        /\ last.sc.v = last.lib.v[1]

\* C8: to_int returns null exactly when the value is an integer within the
\* int range, the slot then holding that value, and a non-null error
\* otherwise.
C8_ToIntExact ==
    last.op = "to_int" =>
        LET v == heap[last.args[1]]
            fits == IsInteger(v) /\ FitsInt(v.k, v.r)
        IN /\ (last.ret.k = "null") <=> fits
           /\ last.ret.k = "null" => last.sc.w /\ last.sc.v = v
           /\ ~fits => last.ret.k = "str"

\* C9: every context new_context returned and still in use logs to the
\* no-op sink, as the default context does; a repeated init_global_context
\* changes nothing; set_epsilon(e, c) changes the epsilon of c and nothing
\* else.
NewContexts == {c \in Contexts : c # 0 /\ ctxs[c].live}
InitIdempotent ==
    (last'.op = "init_global_context" /\ ctxs[0].logptr = "nullStream") =>
        ctxs' = ctxs /\ heap' = heap
EpsilonFrame ==
    last'.op = "set_epsilon" =>
        /\ ctxs' = [ctxs EXCEPT ![last'.args[2]].epsilon = last'.args[1]]
        /\ heap' = heap
C9_SameLogging ==
    [][/\ \A c \in NewContexts' : /\ ctxs'[c].logptr = "nullStream"
                                  /\ ctxs'[c].logptr = ctxs'[0].logptr
       /\ InitIdempotent
       /\ EpsilonFrame]_vars
\* C9 amended: the default context logs to the no-op sink from the first
\* init_global_context on.
C9_SameLoggingOnceInitialised ==
    [][/\ \A c \in NewContexts' : ctxs'[c].logptr = "nullStream"
       /\ last'.op = "init_global_context" => ctxs'[0].logptr = "nullStream"
       /\ ctxs[0].logptr = "nullStream" =>
              /\ ctxs'[0].logptr = "nullStream"
              /\ \A c \in NewContexts' : ctxs'[c].logptr = ctxs'[0].logptr
       /\ InitIdempotent
       /\ EpsilonFrame]_vars
C9_Witness ==
    /\ last.op = "set_epsilon" /\ last.args[2] # 0
    /\ ctxs[0].logptr = "nullStream"
    /\ \E c \in NewContexts : c # last.args[2] /\ ctxs[c].epsilon # ctxs[last.args[2]].epsilon

\* C10: a call that returns an error leaves every output slot it was given
\* as it was.
C10_AllOrNothing ==
    [][last'.ret.k = "str" => \A s \in OutSlots(last') : heap'[s] = heap[s]]_vars
\* C10 amended: the slot a SAFE_CALL assigns is as it was; from_str's slot
\* holds the unevaluated parse; nthprime's slot holds the undefined value
\* when the error is the wrapper's own and is as it was otherwise; the second
\* slot of iabcuv and pa2b2 is as it was.
C10_AssignedSlotKept ==
    [][last'.ret.k = "str" =>
          LET l == last'
          IN /\ l.op \in SafeCallOps =>
                   \/ l.op = "iquorem" /\ l.args[3] = l.args[4]
                   \/ heap'[ResSlot(l)] = heap[ResSlot(l)]
             /\ l.op = "from_str" => heap'[ResSlot(l)] = TextOf(l.args[1]).tree
             /\ l.op = "nthprime" =>
                   IF l.lib.k = "ok" THEN is_undef(heap'[ResSlot(l)])
                   ELSE heap'[ResSlot(l)] = heap[ResSlot(l)]
             /\ l.op = "iabcuv" => heap'[l.args[5]] = heap[l.args[5]]
             /\ l.op = "pa2b2" => heap'[l.args[3]] = heap[l.args[3]]]_vars
C10_Witness ==
    /\ last.op \in ArithOps /\ last.ret.k = "str"
    /\ heap[last.args[1]] # Undef

====
